---------------------------- MODULE Spec2Model ----------------------------
(***************************************************************************)
(* A model of the lazy, parameter-keyed singleton data managers of the     *)
(* COVID-19 data explorer: Data (base_data_manager.py), CovidData, Filter, *)
(* Level, Level.Region and Level.Region.Date (covid_data_manager.py), and  *)
(* GeoJSONManager with its memoized region lookup (geojson_manager.py).    *)
(*                                                                         *)
(* Strings of digits (FIPS codes, prefixes) are sequences of digits, dates *)
(* are day numbers, file paths are positive numbers, objects are indices   *)
(* into the heap, in order of allocation.                                  *)
(***************************************************************************)
EXTENDS Integers, Sequences, FiniteSets, TLC

VARIABLES
    fs,     \* the files on disk: path -> [ok: readable now, hasFips, labels,
            \* lines]
            \* for a table, [ok, type, features] for a GeoJSON document
    heap,   \* every Data instance ever allocated, by object id
    cache,  \* the lru_cache of Data.__new__, least recently used first
    ret,    \* what the last call did: the operation, its receiver, its result
    regionCache,  \* the lru_cache of GeoJSONManager.region, same order
    regionRuns,   \* (instance, prefix) -> returns of the body of region
    threads,      \* where each thread stands inside the data property
    fig           \* the attributes of the Figure

vars == <<fs, heap, cache, ret, regionCache, regionRuns, threads, fig>>

(* The memo of GeoJSONManager.region, which no call on a table touches. *)
geo == <<regionCache, regionRuns>>

(* What a call made from the one main thread, outside a Figure, leaves. *)
aside == <<regionCache, regionRuns, threads, fig>>

-----------------------------------------------------------------------------
(* Bounds of the model. *)

MaxNodes == 3       \* instances allocated in the tree specification
MaxTree == 4        \* instances allocated in the data specification
MaxGen == 2         \* runs of one instance's _generate_data
MaxRows == 2        \* lines of a drawn source file
MaxObjects == 130   \* instances allocated in the eviction specification

MaxFeatures == 2    \* features of a drawn GeoJSON document
MaxLookups == 130   \* region lookups in the geometry eviction specification
MaxRaceNodes == 2   \* instances allocated in the thread specification
MaxFigNodes == 4    \* instances allocated in the figure specification

(* functools.lru_cache applied without arguments: maxsize defaults to 128. *)
LruMaxSize == 128

(* The same default on GeoJSONManager.region. *)
RegionLruMaxSize == 128

-----------------------------------------------------------------------------
(* Values. *)

Prefixes == {<<>>, <<4>>, <<4, 2>>}
Codes == {<<>>, <<4, 2>>, <<0, 4>>}
Dates == {1, 2}

NA == [na |-> TRUE, s |-> <<>>]
Str(s) == [na |-> FALSE, s |-> s]

NoData == [cols |-> {}, rows |-> <<>>, obj |-> <<0, 0>>]
(* Two threads, each outside the data property. *)
Threads == {1, 2}
Idle == [at |-> "idle", node |-> 0, val |-> NoData]
NoThreads == [t \in Threads |-> Idle]

(* No Figure has been made: no attribute is set. *)
NoFigure ==
    [attrs |-> {}, date_data |-> 0, date |-> 0, region_data |-> 0,
     fips |-> <<>>, region_name |-> ""]

NoRet ==
    [op |-> "none", recv |-> 0, inst |-> 0, path |-> 0, name |-> "",
     prefix |-> <<>>, date |-> 0, err |-> "", val |-> NoData]

(* str.startswith on Python strings. *)
StartsWith(s, p) ==
    /\ Len(p) <= Len(s)
    /\ SubSeq(s, 1, Len(p)) = p

(* The rows of a table selected by a boolean mask: df[mask].  A mask entry  *)
(* is "T", "F" or "NA"; boolean indexing with a nullable mask keeps exactly *)
(* the rows whose entry is True (pandas >= 1.0.2 treats NA as False).       *)
RECURSIVE SelectRows(_, _)

(* Mutant: boolean indexing that keeps the rows whose mask entry is missing. *)
RECURSIVE SelectRowsKeepNA(_, _)
SelectRowsKeepNA(rows, mask) ==
    IF rows = <<>> THEN <<>>
    ELSE IF Head(mask) # "F"
         THEN <<Head(rows)>> \o SelectRowsKeepNA(Tail(rows), Tail(mask))
         ELSE SelectRowsKeepNA(Tail(rows), Tail(mask))

SelectRows(rows, mask) ==
    IF rows = <<>> THEN <<>>
    ELSE IF Head(mask) = "T"
         THEN <<Head(rows)>> \o SelectRows(Tail(rows), Tail(mask))
         ELSE SelectRows(Tail(rows), Tail(mask))

-----------------------------------------------------------------------------
(* pd.read_csv(filepath, parse_dates=["date"], dtype={"fips": StringDtype}) *)
(* A line carries the text of its fips field and its date.  An empty field  *)
(* is read as missing (<NA>); any other text is kept as it is, leading      *)
(* zeros included.  The rows get the index 0, 1, 2, ...                     *)

ReadFips(text) == IF text = <<>> THEN NA ELSE Str(text)

ReadCsv(file, obj) ==
    [cols |-> (IF file.hasFips THEN {"date", "fips", "cases"}
                               ELSE {"date", "cases"}) \cup file.labels,
     rows |-> [i \in 1..Len(file.lines) |->
                 [idx |-> i - 1,
                  fips |-> IF file.hasFips THEN ReadFips(file.lines[i].fips)
                                           ELSE NA,
                  date |-> file.lines[i].date]],
     obj |-> obj]

(* Mutant: Filter._filter comparing with >= instead of ==. *)
FilterGe(col, value) ==
    [i \in 1..Len(col) |-> IF col[i] >= value THEN "T" ELSE "F"]

(* Filter._filter: filter_col == filter_value, element by element. *)
FilterEq(col, value) ==
    [i \in 1..Len(col) |-> IF col[i] = value THEN "T" ELSE "F"]

(* Mutant: Region without its _filter override, so Filter._filter's        *)
(* equality decides.                                                        *)
RegionFilterEq(col, fips) ==
    [i \in 1..Len(col) |->
        IF col[i].na THEN "NA"
        ELSE IF col[i].s = fips THEN "T" ELSE "F"]

(* Level.Region._filter: fips_col.str.startswith(fips); a missing value     *)
(* gives a missing mask entry.                                              *)
RegionFilter(col, fips) ==
    [i \in 1..Len(col) |->
        IF col[i].na THEN "NA"
        ELSE IF StartsWith(col[i].s, fips) THEN "T" ELSE "F"]

FilterCol(cls) == IF cls = "Region" THEN "fips" ELSE "date"

Column(table, name) ==
    [i \in 1..Len(table.rows) |->
        IF name = "fips" THEN table.rows[i].fips ELSE table.rows[i].date]

FilterMask(cls, col, value) ==
    IF cls = "Region" THEN RegionFilter(col, value) ELSE FilterEq(col, value)

-----------------------------------------------------------------------------
(* Data.data, Level._generate_data and Filter._generate_data.  Each takes a *)
(* heap and an object id and gives the heap afterwards, whether the call    *)
(* returned, the error it raised and the table it returned.                 *)

Readable(path) == path \in DOMAIN fs /\ fs[path].ok

RECURSIVE DataOf(_, _)
RECURSIVE GenerateData(_, _)

(* Level._generate_data: read the file, or raise when it cannot be opened. *)
LevelGenerate(h, i) ==
    IF Readable(h[i].filepath)
    THEN [h |-> h, ok |-> TRUE, err |-> "",
          val |-> ReadCsv(fs[h[i].filepath], <<i, h[i].gen>>)]
    ELSE [h |-> h, ok |-> FALSE, err |-> "FileNotFoundError", val |-> NoData]

(* Mutant: Filter._generate_data with no fallback for an absent column: it *)
(* gives an empty table.                                                    *)
FilterGenerateNoFallback(h, i) ==
    LET o == DataOf(h, h[i].outer) IN
    IF ~o.ok THEN [h |-> o.h, ok |-> FALSE, err |-> o.err, val |-> NoData]
    ELSE [h |-> o.h, ok |-> TRUE, err |-> "",
          val |-> [cols |-> o.val.cols,
                   rows |-> IF FilterCol(h[i].cls) \in o.val.cols
                            THEN SelectRows(o.val.rows,
                                   FilterMask(h[i].cls,
                                              Column(o.val, FilterCol(h[i].cls)),
                                              h[i].filter))
                            ELSE <<>>,
                   obj |-> <<i, o.h[i].gen>>]]

(* Mutant: Filter._generate_data raising when no row is selected. *)
FilterGenerateRaisesOnEmpty(h, i) ==
    LET o == DataOf(h, h[i].outer)
        rows == SelectRows(o.val.rows,
                           FilterMask(h[i].cls,
                                      Column(o.val, FilterCol(h[i].cls)),
                                      h[i].filter))
    IN
    IF ~o.ok THEN [h |-> o.h, ok |-> FALSE, err |-> o.err, val |-> NoData]
    ELSE IF FilterCol(h[i].cls) \in o.val.cols
         THEN IF rows = <<>>
              THEN [h |-> o.h, ok |-> FALSE, err |-> "ValueError", val |-> NoData]
              ELSE [h |-> o.h, ok |-> TRUE, err |-> "",
                    val |-> [cols |-> o.val.cols, rows |-> rows,
                             obj |-> <<i, o.h[i].gen>>]]
         ELSE [h |-> o.h, ok |-> TRUE, err |-> "", val |-> o.val]

(* Mutant: Filter._generate_data copying the outer table when the filter   *)
(* column is absent, keeping none of its columns.                           *)
FilterGenerateDropsColumns(h, i) ==
    LET o == DataOf(h, h[i].outer) IN
    IF ~o.ok THEN [h |-> o.h, ok |-> FALSE, err |-> o.err, val |-> NoData]
    ELSE IF FilterCol(h[i].cls) \in o.val.cols
         THEN [h |-> o.h, ok |-> TRUE, err |-> "",
               val |-> [cols |-> o.val.cols,
                        rows |-> SelectRows(o.val.rows,
                                   FilterMask(h[i].cls,
                                              Column(o.val, FilterCol(h[i].cls)),
                                              h[i].filter)),
                        obj |-> <<i, o.h[i].gen>>]]
         ELSE [h |-> o.h, ok |-> TRUE, err |-> "",
               val |-> [cols |-> {}, rows |-> o.val.rows,
                        obj |-> <<i, o.h[i].gen>>]]

(* Mutant: Filter._generate_data calling outer._generate_data() itself,    *)
(* past outer's data property.                                              *)
FilterGenerateBypassesCache(h, i) ==
    LET o == GenerateData(h, h[i].outer) IN
    IF ~o.ok THEN [h |-> o.h, ok |-> FALSE, err |-> o.err, val |-> NoData]
    ELSE IF FilterCol(h[i].cls) \in o.val.cols
         THEN [h |-> o.h, ok |-> TRUE, err |-> "",
               val |-> [cols |-> o.val.cols,
                        rows |-> SelectRows(o.val.rows,
                                   FilterMask(h[i].cls,
                                              Column(o.val, FilterCol(h[i].cls)),
                                              h[i].filter)),
                        obj |-> <<i, o.h[i].gen>>]]
         ELSE [h |-> o.h, ok |-> TRUE, err |-> "", val |-> o.val]

(* Mutant: Filter._generate_data trying self.outer() a second time when    *)
(* the first evaluation raises.                                             *)
FilterGenerateRetries(h, i) ==
    LET o1 == DataOf(h, h[i].outer)
        o == IF o1.ok THEN o1 ELSE DataOf(o1.h, h[i].outer)
    IN
    IF ~o.ok THEN [h |-> o.h, ok |-> FALSE, err |-> o.err, val |-> NoData]
    ELSE IF FilterCol(h[i].cls) \in o.val.cols
         THEN [h |-> o.h, ok |-> TRUE, err |-> "",
               val |-> [cols |-> o.val.cols,
                        rows |-> SelectRows(o.val.rows,
                                   FilterMask(h[i].cls,
                                              Column(o.val, FilterCol(h[i].cls)),
                                              h[i].filter)),
                        obj |-> <<i, o.h[i].gen>>]]
         ELSE [h |-> o.h, ok |-> TRUE, err |-> "", val |-> o.val]

(* Mutant: Filter._generate_data filtering the outer dataset only when the *)
(* outer node holds one already, and giving an empty table otherwise.      *)
FilterGenerateIfOuterReady(h, i) ==
    LET o == DataOf(h, h[i].outer) IN
    IF ~h[h[i].outer].hasData
    THEN [h |-> h, ok |-> TRUE, err |-> "",
          val |-> [cols |-> {}, rows |-> <<>>, obj |-> <<i, h[i].gen>>]]
    ELSE IF FilterCol(h[i].cls) \in o.val.cols
         THEN [h |-> o.h, ok |-> TRUE, err |-> "",
               val |-> [cols |-> o.val.cols,
                        rows |-> SelectRows(o.val.rows,
                                   FilterMask(h[i].cls,
                                              Column(o.val, FilterCol(h[i].cls)),
                                              h[i].filter)),
                        obj |-> <<i, o.h[i].gen>>]]
         ELSE [h |-> o.h, ok |-> TRUE, err |-> "", val |-> o.val]

(* Filter._generate_data: self.outer() is evaluated first; an error in it   *)
(* propagates.  The later self.outer() evaluations hit outer's _data.       *)
FilterGenerate(h, i) ==
    LET o == DataOf(h, h[i].outer) IN
    IF ~o.ok THEN [h |-> o.h, ok |-> FALSE, err |-> o.err, val |-> NoData]
    ELSE IF FilterCol(h[i].cls) \in o.val.cols
         THEN [h |-> o.h, ok |-> TRUE, err |-> "",
               val |-> [cols |-> o.val.cols,
                        rows |-> SelectRows(o.val.rows,
                                   FilterMask(h[i].cls,
                                              Column(o.val, FilterCol(h[i].cls)),
                                              h[i].filter)),
                        obj |-> <<i, o.h[i].gen>>]]
         ELSE [h |-> o.h, ok |-> TRUE, err |-> "", val |-> o.val]

(* "".join of the feature's properties named by fips_properties. *)
JoinProperties(f, withCounty) ==
    IF withCounty THEN f.STATE \o f.COUNTY ELSE f.STATE

(* GeoJSONManager._generate_data: open the file, or raise; the first        *)
(* feature alone decides whether COUNTY is part of the ids (IndexError when *)
(* there is no feature), and every feature then gets the id joined from     *)
(* those properties (KeyError when it has no COUNTY and the first has).     *)
GeoGenerate(h, i) ==
    LET file == fs[h[i].filepath]
        n == Len(file.features)
        withCounty == file.features[1].hasCounty
    IN
    IF ~Readable(h[i].filepath)
    THEN [h |-> h, ok |-> FALSE, err |-> "FileNotFoundError", val |-> NoData]
    ELSE IF n = 0
    THEN [h |-> h, ok |-> FALSE, err |-> "IndexError", val |-> NoData]
    ELSE IF withCounty /\ \E k \in 1..n : ~file.features[k].hasCounty
    THEN [h |-> h, ok |-> FALSE, err |-> "KeyError", val |-> NoData]
    ELSE [h |-> h, ok |-> TRUE, err |-> "",
          val |-> [type |-> file.type,
                   features |-> [k \in 1..n |->
                       [properties |-> file.features[k],
                        id |-> JoinProperties(file.features[k], withCounty)]],
                   obj |-> <<i, h[i].gen>>]]

(* One run of self._generate_data(), counted in gen (and in fails when it   *)
(* raises).                                                                 *)
GenerateData(h, i) ==
    LET h1 == [h EXCEPT ![i].gen = @ + 1]
        g == IF h1[i].cls = "Level" THEN LevelGenerate(h1, i)
             ELSE IF h1[i].cls = "GeoJSON" THEN GeoGenerate(h1, i)
             ELSE FilterGenerate(h1, i)
    IN IF g.ok THEN g
       ELSE [g EXCEPT !.h = [g.h EXCEPT ![i].fails = @ + 1]]

(* Mutant: the data property without its hasattr check. *)
DataOfNoCheck(h, i) ==
    LET g == GenerateData(h, i) IN
    IF g.ok
    THEN [g EXCEPT !.h = [g.h EXCEPT ![i].hasData = TRUE, ![i].data = g.val]]
    ELSE g

(* Mutant: the data property storing an empty table when generation raises. *)
DataOfKeepsFailure(h, i) ==
    IF h[i].hasData
    THEN [h |-> h, ok |-> TRUE, err |-> "", val |-> h[i].data]
    ELSE LET g == GenerateData(h, i) IN
         [g EXCEPT !.h = [g.h EXCEPT ![i].hasData = TRUE, ![i].data = g.val]]

(* The data property: generate when the instance has no _data attribute,    *)
(* and set it only when the generation returned.                            *)
DataOf(h, i) ==
    IF h[i].hasData
    THEN [h |-> h, ok |-> TRUE, err |-> "", val |-> h[i].data]
    ELSE LET g == GenerateData(h, i) IN
         IF g.ok
         THEN [g EXCEPT !.h = [g.h EXCEPT ![i].hasData = TRUE,
                                          ![i].data = g.val]]
         ELSE g

-----------------------------------------------------------------------------
(* Data.__new__ under functools.lru_cache, and the __init__ that follows.   *)

LevelKey(path) == [cls |-> "Level", args |-> <<path>>]
GeoKey(path) == [cls |-> "GeoJSON", args |-> <<path>>]

(* Mutant: a key of the class and the outer node, without the filter value. *)
FilterKeyNoValue(cls, outer, value) == [cls |-> cls, args |-> <<outer>>]
FilterKey(cls, outer, value) == [cls |-> cls, args |-> <<outer, value>>]

KeyEq(a, b) == a.cls = b.cls /\ a.args = b.args

CacheIndex(c, key) ==
    IF \E n \in 1..Len(c) : KeyEq(c[n].key, key)
    THEN CHOOSE n \in 1..Len(c) : KeyEq(c[n].key, key)
    ELSE 0

Remove(c, n) == SubSeq(c, 1, n - 1) \o SubSeq(c, n + 1, Len(c))

(* A hit moves the entry to the most recently used end.  A miss calls       *)
(* object.__new__, stores the result and, when the cache is full, drops the *)
(* least recently used entry.                                               *)
CacheAfter(c, key, inst) ==
    LET n == CacheIndex(c, key) IN
    IF n > 0 THEN Remove(c, n) \o <<c[n]>>
    ELSE IF Len(c) >= LruMaxSize
         THEN Tail(c) \o <<[key |-> key, inst |-> inst]>>
         ELSE c \o <<[key |-> key, inst |-> inst]>>

(* The instance __new__ returns for the key: the cached one, or a new one. *)
NewInstance(c, h, key) ==
    LET n == CacheIndex(c, key) IN
    IF n > 0 THEN c[n].inst ELSE Len(h) + 1

(* A new object, with no attribute set yet. *)
Blank(cls) ==
    [cls |-> cls, filepath |-> 0, outer |-> 0, filter |-> <<>>,
     hasData |-> FALSE, data |-> NoData, gen |-> 0, fails |-> 0]

HeapAfterNew(h, inst, cls) ==
    IF inst > Len(h) THEN Append(h, Blank(cls)) ELSE h

(* Mutant: Level.__init__ reading the file at once. *)
LevelInitEager(h, i, filepath) ==
    DataOf([h EXCEPT ![i].filepath = filepath], i).h

(* Mutant: Level.__init__ dropping the dataset the instance holds. *)
LevelInitResets(h, i, filepath) ==
    [h EXCEPT ![i].filepath = filepath, ![i].hasData = FALSE, ![i].data = NoData]

(* Level.__init__ *)
LevelInit(h, i, filepath) == [h EXCEPT ![i].filepath = filepath]

(* Mutant: Filter.__init__ storing the filter value on the outer node too. *)
FilterInitTouchesOuter(h, i, outer, value) ==
    [h EXCEPT ![i].outer = outer, ![i].filter = value, ![outer].filter = value]

(* Filter.__init__, through Region.__init__ and Date.__init__ *)
FilterInit(h, i, outer, value) ==
    [h EXCEPT ![i].outer = outer, ![i].filter = value]

(* GeoJSONManager.__init__, the encoding left at its default *)
GeoInit(h, i, filepath) == [h EXCEPT ![i].filepath = filepath]

-----------------------------------------------------------------------------
(* GeoJSONManager.region under functools.lru_cache. *)

RegionIndex(c, i, prefix) ==
    IF \E n \in 1..Len(c) : c[n].self = i /\ c[n].prefix = prefix
    THEN CHOOSE n \in 1..Len(c) : c[n].self = i /\ c[n].prefix = prefix
    ELSE 0

(* A miss stores the result and, when the cache is full, drops the least    *)
(* recently used entry.                                                     *)
RegionCacheStore(c, i, prefix, val) ==
    LET e == [self |-> i, prefix |-> prefix, val |-> val] IN
    IF Len(c) >= RegionLruMaxSize THEN Tail(c) \o <<e>> ELSE c \o <<e>>

RunsOf(runs, i, prefix) ==
    IF <<i, prefix>> \in DOMAIN runs THEN runs[<<i, prefix>>] ELSE 0

(* Mutant: the body of region filtering on the STATE property. *)
SubDocumentByState(doc, prefix, obj) ==
    [type |-> doc.type,
     features |-> SelectSeq(doc.features,
                            LAMBDA f : StartsWith(f.properties.STATE, prefix)),
     obj |-> obj]

(* The body of region: a new dict, the features whose id starts with the    *)
(* prefix under "features", every other key with the document's value.      *)
SubDocument(doc, prefix, obj) ==
    [type |-> doc.type,
     features |-> SelectSeq(doc.features, LAMBDA f : StartsWith(f.id, prefix)),
     obj |-> obj]

-----------------------------------------------------------------------------
(* The operations. *)

IsNode(i) == i \in 1..Len(heap)

(* Level(filepath) *)
LevelCall(path) ==
    LET key == LevelKey(path)
        i == NewInstance(cache, heap, key)
    IN /\ heap' = LevelInit(HeapAfterNew(heap, i, "Level"), i, path)
       /\ cache' = CacheAfter(cache, key, i)
       /\ ret' = [NoRet EXCEPT !.op = "Level", !.path = path, !.inst = i]
       /\ UNCHANGED <<fs, aside>>

(* level.region(fips), that is Level.Region(level, fips); with a Region as  *)
(* outer it is the direct call Level.Region(region, fips).                  *)
RegionCall(o, fips) ==
    LET key == FilterKey("Region", o, fips)
        i == NewInstance(cache, heap, key)
    IN /\ IsNode(o)
       /\ heap[o].cls \in {"Level", "Region"}
       /\ heap' = FilterInit(HeapAfterNew(heap, i, "Region"), i, o, fips)
       /\ cache' = CacheAfter(cache, key, i)
       /\ ret' = [NoRet EXCEPT !.op = IF heap[o].cls = "Level" THEN "region"
                                                             ELSE "Region",
                               !.recv = o, !.prefix = fips, !.inst = i]
       /\ UNCHANGED <<fs, aside>>

(* region.region(fips): Region defines date() only, so the attribute lookup *)
(* fails before anything is constructed.                                    *)
RegionOfRegion(o, fips) ==
    /\ IsNode(o)
    /\ heap[o].cls = "Region"
    /\ ret' = [NoRet EXCEPT !.op = "region", !.recv = o,
                            !.err = "AttributeError"]
    /\ UNCHANGED <<fs, heap, cache, aside>>

(* region.date(date), that is Level.Region.Date(region, date) *)
DateCall(o, date) ==
    LET key == FilterKey("Date", o, date)
        i == NewInstance(cache, heap, key)
    IN /\ IsNode(o)
       /\ heap[o].cls = "Region"
       /\ heap' = FilterInit(HeapAfterNew(heap, i, "Date"), i, o, date)
       /\ cache' = CacheAfter(cache, key, i)
       /\ ret' = [NoRet EXCEPT !.op = "date", !.recv = o, !.date = date,
                               !.inst = i]
       /\ UNCHANGED <<fs, aside>>

(* node(), that is node.data *)
Materialize(i) ==
    /\ IsNode(i)
    /\ LET r == DataOf(heap, i) IN
       /\ heap' = r.h
       /\ ret' = [NoRet EXCEPT !.op = "materialize", !.recv = i,
                               !.err = r.err, !.val = r.val]
    /\ UNCHANGED <<fs, cache, aside>>

(* The names of CovidData's column properties and of Filter.state. *)
Accessors == {"date", "fips", "cases", "deaths", "state"}

(* What the attribute `name` of an instance of cls is: Filter adds state to *)
(* CovidData's four properties, and Region's method date(date) hides the    *)
(* date property it inherits.                                               *)
AttributeKind(cls, name) ==
    IF name = "state" /\ cls = "Level" THEN "missing"
    ELSE IF name = "date" /\ cls = "Region" THEN "method"
    ELSE "property"

(* self()[name] of a table that has the column: a new Series. *)
Project(table, name) == [cols |-> {name}, rows |-> table.rows, obj |-> <<0, 0>>]

(* Mutant: a column property giving an empty column when the table has no  *)
(* column of that name.                                                     *)
ColumnOrDefault(table, name) ==
    [ok |-> TRUE,
     err |-> "",
     val |-> IF name \in table.cols THEN Project(table, name)
             ELSE [cols |-> {name}, rows |-> <<>>, obj |-> <<0, 0>>]]

(* self()[name]: pandas raises KeyError for a column the table lacks. *)
GetItem(table, name) ==
    IF name \in table.cols
    THEN [ok |-> TRUE, err |-> "", val |-> Project(table, name)]
    ELSE [ok |-> FALSE, err |-> "KeyError", val |-> NoData]

(* node.name for a column name: no such attribute raises AttributeError, a  *)
(* method comes back bound to the instance, and a property materializes the *)
(* instance and then selects the column.                                     *)
Access(i, name) ==
    /\ IsNode(i)
    /\ name \in Accessors
    /\ LET kind == AttributeKind(heap[i].cls, name)
           r == DataOf(heap, i)
           g == GetItem(r.val, name)
       IN
       IF kind = "missing"
       THEN /\ heap' = heap
            /\ ret' = [NoRet EXCEPT !.op = "access", !.recv = i, !.name = name,
                                    !.err = "AttributeError"]
       ELSE IF kind = "method"
       THEN /\ heap' = heap
            /\ ret' = [NoRet EXCEPT !.op = "access", !.recv = i, !.name = name,
                                    !.inst = i]
       ELSE /\ heap' = r.h
            /\ ret' = [NoRet EXCEPT !.op = "access", !.recv = i, !.name = name,
                                    !.err = IF r.ok THEN g.err ELSE r.err,
                                    !.val = IF r.ok THEN g.val ELSE NoData]
    /\ UNCHANGED <<fs, cache, aside>>

(* Mutant: the body of region filtering the document's own features list. *)
RegionBodyInPlace(h, i, prefix, obj) ==
    LET r == DataOf(h, i)
        doc == SubDocument(r.val, prefix, obj)
    IN
    IF ~r.ok THEN [h |-> r.h, ok |-> FALSE, err |-> r.err, val |-> NoData]
    ELSE [h |-> [r.h EXCEPT ![i].data.features = doc.features],
          ok |-> TRUE, err |-> "", val |-> doc]

(* The body of region: self() for the features, self() again for the other *)
(* keys; the document is read, never written.                               *)
RegionBody(h, i, prefix, obj) ==
    LET r1 == DataOf(h, i)
        r2 == DataOf(r1.h, i)
    IN
    IF ~r1.ok THEN [h |-> r1.h, ok |-> FALSE, err |-> r1.err, val |-> NoData]
    ELSE [h |-> r2.h, ok |-> TRUE, err |-> "",
          val |-> [SubDocument(r1.val, prefix, obj) EXCEPT !.type = r2.val.type]]

(* GeoJSONManager(filepath) *)
GeoCall(path) ==
    LET key == GeoKey(path)
        i == NewInstance(cache, heap, key)
    IN /\ heap' = GeoInit(HeapAfterNew(heap, i, "GeoJSON"), i, path)
       /\ cache' = CacheAfter(cache, key, i)
       /\ ret' = [NoRet EXCEPT !.op = "GeoJSONManager", !.path = path,
                               !.inst = i]
       /\ UNCHANGED <<fs, aside>>

(* manager.region(fips_prefix): a hit returns the stored dict and moves it  *)
(* to the most recently used end; a miss runs the body, which materializes  *)
(* the document, and stores what it returns; a body that raises stores      *)
(* nothing.                                                                 *)
GeoRegion(i, prefix) ==
    /\ IsNode(i)
    /\ heap[i].cls = "GeoJSON"
    /\ LET n == RegionIndex(regionCache, i, prefix)
           run == RunsOf(regionRuns, i, prefix) + 1
           r == RegionBody(heap, i, prefix, <<i, prefix, run>>)
           doc == r.val
       IN
       IF n > 0
       THEN /\ heap' = heap
            /\ regionCache' = Remove(regionCache, n) \o <<regionCache[n]>>
            /\ regionRuns' = regionRuns
            /\ ret' = [NoRet EXCEPT !.op = "geo_region", !.recv = i,
                                    !.prefix = prefix,
                                    !.val = regionCache[n].val]
       ELSE IF ~r.ok
       THEN /\ heap' = r.h
            /\ UNCHANGED geo
            /\ ret' = [NoRet EXCEPT !.op = "geo_region", !.recv = i,
                                    !.prefix = prefix, !.err = r.err]
       ELSE /\ heap' = r.h
            /\ regionCache' = RegionCacheStore(regionCache, i, prefix, doc)
            /\ regionRuns' = (<<i, prefix>> :> run) @@ regionRuns
            /\ ret' = [NoRet EXCEPT !.op = "geo_region", !.recv = i,
                                    !.prefix = prefix, !.val = doc]
    /\ UNCHANGED <<fs, cache, threads, fig>>

(* The data property run by a thread, one statement at a time: there is no *)
(* lock, so another thread may run between any two of them.  First the     *)
(* test `not hasattr(self, "_data")`: with _data set the thread returns    *)
(* it, otherwise it goes on to generate.                                    *)
DataCheck(t, i) ==
    /\ IsNode(i)
    /\ threads[t].at = "idle"
    /\ IF heap[i].hasData
       THEN /\ threads' = threads
            /\ ret' = [NoRet EXCEPT !.op = "materialize", !.recv = i,
                                    !.val = heap[i].data]
       ELSE /\ threads' = [threads EXCEPT ![t] = [Idle EXCEPT !.at = "generate",
                                                               !.node = i]]
            /\ ret' = NoRet
    /\ UNCHANGED <<fs, heap, cache, geo, fig>>

(* Mutant: the thread tests hasattr again before generating and returns    *)
(* the dataset another thread has set in between.                           *)
ThreadGenerateRechecks(h, i) ==
    IF h[i].hasData
    THEN [h |-> h, ok |-> TRUE, err |-> "", val |-> h[i].data]
    ELSE GenerateData(h, i)

(* self._generate_data() of a thread that passed the test. *)
ThreadGenerate(h, i) == GenerateData(h, i)

(* The right-hand side `self._generate_data()`: the thread keeps what it    *)
(* returns, or the call raises out of the property.                        *)
DataGenerate(t) ==
    /\ threads[t].at = "generate"
    /\ LET i == threads[t].node
           g == ThreadGenerate(heap, i)
       IN /\ heap' = g.h
          /\ IF g.ok
             THEN /\ threads' = [threads EXCEPT ![t].at = "assign",
                                                ![t].val = g.val]
                  /\ ret' = NoRet
             ELSE /\ threads' = [threads EXCEPT ![t] = Idle]
                  /\ ret' = [NoRet EXCEPT !.op = "materialize", !.recv = i,
                                          !.err = g.err]
    /\ UNCHANGED <<fs, cache, geo, fig>>

(* The assignment `self._data = ...` and `return self._data`. *)
DataAssign(t) ==
    /\ threads[t].at = "assign"
    /\ LET i == threads[t].node IN
       /\ heap' = [heap EXCEPT ![i].hasData = TRUE, ![i].data = threads[t].val]
       /\ ret' = [NoRet EXCEPT !.op = "materialize", !.recv = i,
                               !.val = threads[t].val]
    /\ threads' = [threads EXCEPT ![t] = Idle]
    /\ UNCHANGED <<fs, cache, geo, fig>>

(* The first half of Figure._set_data: the attributes the class of the     *)
(* data manager selects.  For a Date whose outer has no filter attribute (a *)
(* Level) the last assignment raises AttributeError.                        *)
SelectData(f, h, dm) ==
    IF h[dm].cls = "Date"
    THEN LET f1 == [f EXCEPT !.attrs = @ \cup {"date_data", "date",
                                                "region_data"},
                             !.date_data = dm,
                             !.date = h[dm].filter,
                             !.region_data = h[dm].outer]
         IN IF h[h[dm].outer].cls \in {"Region", "Date"}
            THEN [fig |-> [f1 EXCEPT !.attrs = @ \cup {"fips"},
                                     !.fips = h[h[dm].outer].filter],
                  err |-> ""]
            ELSE [fig |-> f1, err |-> "AttributeError"]
    ELSE IF h[dm].cls = "Region"
    THEN [fig |-> [f EXCEPT !.attrs = @ \cup {"region_data", "fips"},
                            !.region_data = dm,
                            !.fips = h[dm].filter],
          err |-> ""]
    ELSE [fig |-> f, err |-> ""]

(* The name of a region with a prefix other than "": r is what the call    *)
(* data_manager() gave; unless the dataset is empty, its state column is    *)
(* read, and its county column for a prefix longer than a state code.       *)
NameFromData(f, cls, r) ==
    LET st == IF AttributeKind(cls, "state") = "missing"
              THEN [ok |-> FALSE, err |-> "AttributeError", val |-> NoData]
              ELSE GetItem(r.val, "state")
        co == GetItem(r.val, "county")
        f1 == [f EXCEPT !.attrs = @ \cup {"region_name"},
                        !.region_name = "state"]
    IN
    IF ~r.ok THEN [fig |-> f, h |-> r.h, err |-> r.err]
    ELSE IF r.val.rows = <<>> THEN [fig |-> f, h |-> r.h, err |-> ""]
    ELSE IF ~st.ok THEN [fig |-> f, h |-> r.h, err |-> st.err]
    ELSE IF Len(f.fips) <= 2 THEN [fig |-> f1, h |-> r.h, err |-> ""]
    ELSE IF ~co.ok THEN [fig |-> f1, h |-> r.h, err |-> co.err]
    ELSE [fig |-> [f1 EXCEPT !.region_name = "county, state"],
          h |-> r.h, err |-> ""]

(* The second half of Figure._set_data: the region's name.  self.fips must  *)
(* exist; with the prefix "" no dataset is looked at.                       *)
NameRegion(f, h, dm) ==
    IF "fips" \notin f.attrs
    THEN [fig |-> f, h |-> h, err |-> "AttributeError"]
    ELSE IF f.fips = <<>>
    THEN [fig |-> [f EXCEPT !.attrs = @ \cup {"region_name"},
                            !.region_name = "the United States"],
          h |-> h, err |-> ""]
    ELSE NameFromData(f, h[dm].cls, DataOf(h, dm))

(* Figure._set_data *)
SetData(f, h, dm) ==
    LET a == SelectData(f, h, dm)
        b == NameRegion(a.fig, h, dm)
    IN IF a.err # "" THEN [fig |-> a.fig, h |-> h, err |-> a.err] ELSE b

(* Figure(data_manager): when _set_data raises, so does the constructor,    *)
(* and no Figure comes of it.                                               *)
FigureNew(dm) ==
    /\ IsNode(dm)
    /\ fig = NoFigure
    /\ LET a == SetData([NoFigure EXCEPT !.attrs = {"fig"}], heap, dm) IN
       /\ fig' = IF a.err = "" THEN a.fig ELSE NoFigure
       /\ heap' = a.h
       /\ ret' = [NoRet EXCEPT !.op = "Figure", !.recv = dm, !.err = a.err]
    /\ UNCHANGED <<fs, cache, geo, threads>>

(* figure.update(data_manager); dm = 0 is update() with no data manager.    *)
(* What _set_data assigned before it raised stays assigned.                 *)
FigureUpdate(dm) ==
    /\ fig # NoFigure
    /\ dm = 0 \/ IsNode(dm)
    /\ IF dm = 0
       THEN /\ UNCHANGED <<fig, heap>>
            /\ ret' = [NoRet EXCEPT !.op = "update"]
       ELSE LET a == SetData(fig, heap, dm) IN
            /\ fig' = a.fig
            /\ heap' = a.h
            /\ ret' = [NoRet EXCEPT !.op = "update", !.recv = dm,
                                    !.err = a.err]
    /\ UNCHANGED <<fs, cache, geo, threads>>

(* The environment: a source file becomes readable or unreadable. *)
SetReadable(path, b) ==
    /\ path \in DOMAIN fs
    /\ fs[path].ok # b
    /\ fs' = [fs EXCEPT ![path].ok = b]
    /\ ret' = NoRet
    /\ UNCHANGED <<heap, cache, aside>>

-----------------------------------------------------------------------------
(* Source files. *)

Line(fips, date) == [fips |-> fips, date |-> date]

(* us-counties.csv style: a fips column, one line with an empty fips field. *)
CountiesCsv ==
    [ok |-> TRUE, hasFips |-> TRUE, labels |-> {},
     lines |-> <<Line(<<4>>, 1), Line(<<>>, 1), Line(<<4, 2>>, 1),
                 Line(<<0, 4>>, 2), Line(<<4, 2>>, 2)>>]

(* Every file of at most MaxRows lines; without a fips column the fips     *)
(* text of a line is empty.                                                 *)
LinesUpTo(n, lineSet) == UNION {[1..k -> lineSet] : k \in 0..n}

DrawnFiles ==
    {[ok |-> TRUE, hasFips |-> TRUE, labels |-> {}, lines |-> l] :
        l \in LinesUpTo(MaxRows, {Line(c, d) : c \in Codes, d \in Dates})}
    \cup
    {[ok |-> TRUE, hasFips |-> FALSE, labels |-> {}, lines |-> l] :
        l \in LinesUpTo(MaxRows, {Line(<<>>, d) : d \in Dates})}

RECURSIVE Chain(_, _)
Chain(h, i) ==
    IF h[i].cls \in {"Level", "GeoJSON"} THEN {i}
    ELSE {i} \cup Chain(h, h[i].outer)

(* The calls the bounds allow: a construction that allocates needs room, a  *)
(* materialization needs every instance it may generate to have runs left.  *)
Cached(key) == CacheIndex(cache, key) > 0
MayConstruct(key, cap) == Cached(key) \/ Len(heap) < cap
MayGenerate(i) == \A j \in Chain(heap, i) : heap[j].gen < MaxGen

-----------------------------------------------------------------------------
(* The tree specification: one source file that comes and goes, every call  *)
(* in every order, a bounded number of instances.                           *)

Init ==
    /\ \E a \in BOOLEAN : fs = (1 :> [CountiesCsv EXCEPT !.ok = a])
    /\ heap = <<>>
    /\ cache = <<>>
    /\ ret = NoRet
    /\ regionCache = <<>>
    /\ regionRuns = <<>>
    /\ threads = NoThreads
    /\ fig = NoFigure

NewLevel == MayConstruct(LevelKey(1), MaxNodes) /\ LevelCall(1)

NewRegion ==
    \E o \in 1..Len(heap), f \in Prefixes :
        MayConstruct(FilterKey("Region", o, f), MaxNodes) /\ RegionCall(o, f)

NewDate ==
    \E o \in 1..Len(heap), d \in Dates :
        MayConstruct(FilterKey("Date", o, d), MaxNodes) /\ DateCall(o, d)

Call == \E i \in 1..Len(heap) : MayGenerate(i) /\ Materialize(i)

Get ==
    \E i \in 1..Len(heap), name \in Accessors :
        /\ AttributeKind(heap[i].cls, name) = "property" => MayGenerate(i)
        /\ Access(i, name)

Disk == \E b \in BOOLEAN : SetReadable(1, b)

Next == NewLevel \/ NewRegion \/ NewDate \/ Call \/ Get \/ Disk

Spec == Init /\ [][Next]_vars

-----------------------------------------------------------------------------
(* The data specification: every source file of at most MaxRows lines,      *)
(* always readable; each node is constructed once and materialized once.    *)

InitData ==
    /\ \E f \in DrawnFiles : fs = (1 :> f)
    /\ heap = <<>>
    /\ cache = <<>>
    /\ ret = NoRet
    /\ regionCache = <<>>
    /\ regionRuns = <<>>
    /\ threads = NoThreads
    /\ fig = NoFigure

FirstLevel == ~Cached(LevelKey(1)) /\ Len(heap) < MaxTree /\ LevelCall(1)

FirstRegion ==
    \E o \in 1..Len(heap), f \in Prefixes :
        /\ ~Cached(FilterKey("Region", o, f))
        /\ Len(heap) < MaxTree
        /\ RegionCall(o, f)

FirstDate ==
    \E o \in 1..Len(heap), d \in Dates :
        /\ ~Cached(FilterKey("Date", o, d))
        /\ Len(heap) < MaxTree
        /\ DateCall(o, d)

NoRegionOfRegion == \E o \in 1..Len(heap), f \in Prefixes : RegionOfRegion(o, f)

FirstCall == \E i \in 1..Len(heap) : ~heap[i].hasData /\ Materialize(i)

NextData == FirstLevel \/ FirstRegion \/ FirstDate \/ NoRegionOfRegion \/ FirstCall

SpecData == InitData /\ [][NextData]_vars

-----------------------------------------------------------------------------
(* The eviction specification: Level(1), whose file is missing, is         *)
(* constructed first, then again and again among Levels of ever new paths. *)

RECURSIVE MaxPath(_)
MaxPath(h) ==
    IF h = <<>> THEN 1
    ELSE LET m == MaxPath(Tail(h)) IN
         IF Head(h).filepath > m THEN Head(h).filepath ELSE m

InitLru ==
    /\ fs = (1 :> [CountiesCsv EXCEPT !.ok = FALSE])
    /\ heap = <<>>
    /\ cache = <<>>
    /\ ret = NoRet
    /\ regionCache = <<>>
    /\ regionRuns = <<>>
    /\ threads = NoThreads
    /\ fig = NoFigure

SameLevel == MayConstruct(LevelKey(1), MaxObjects) /\ LevelCall(1)

OtherLevel ==
    /\ heap # <<>>
    /\ Len(heap) < MaxObjects
    /\ LevelCall(MaxPath(heap) + 1)

CallLevel ==
    \E i \in 1..Len(heap) :
        heap[i].filepath = 1 /\ MayGenerate(i) /\ Materialize(i)

NextLru == SameLevel \/ OtherLevel \/ CallLevel

SpecLru == InitLru /\ [][NextLru]_vars

-----------------------------------------------------------------------------
(* The geometry specification: every GeoJSON document of at most            *)
(* MaxFeatures features, readable or not; one GeoJSONManager, materialized  *)
(* and looked up by prefix in every order.                                  *)

States == {<<4, 2>>, <<0, 6>>}
Counties == {<<0, 0, 3>>}
DocTypes == {"FeatureCollection", "Topology"}
GeoPrefixes == {<<>>, <<4>>, <<4, 2>>, <<4, 2, 0, 0, 3>>}

(* The properties of a feature: STATE, and COUNTY when hasCounty. *)
Feature(state, hasCounty, county) ==
    [STATE |-> state, hasCounty |-> hasCounty, COUNTY |-> county]

DrawnFeatures ==
    {Feature(st, FALSE, <<>>) : st \in States}
    \cup {Feature(st, TRUE, c) : st \in States, c \in Counties}

DrawnDocs ==
    {[ok |-> a, type |-> t, features |-> f] :
        a \in BOOLEAN, t \in DocTypes,
        f \in LinesUpTo(MaxFeatures, DrawnFeatures)}

InitGeo ==
    /\ \E d \in DrawnDocs : fs = (1 :> d)
    /\ heap = <<>>
    /\ cache = <<>>
    /\ ret = NoRet
    /\ regionCache = <<>>
    /\ regionRuns = <<>>
    /\ threads = NoThreads
    /\ fig = NoFigure

NewGeo == (Cached(GeoKey(1)) \/ heap = <<>>) /\ GeoCall(1)

CallGeo == \E i \in 1..Len(heap) : MayGenerate(i) /\ Materialize(i)

LookupGeo ==
    \E i \in 1..Len(heap), p \in GeoPrefixes :
        /\ RegionIndex(regionCache, i, p) = 0 => MayGenerate(i)
        /\ GeoRegion(i, p)

NextGeo == NewGeo \/ CallGeo \/ LookupGeo

SpecGeo == InitGeo /\ [][NextGeo]_vars

-----------------------------------------------------------------------------
(* The geometry eviction specification: one county document, the prefix     *)
(* "42" looked up first and again at any time, and up to MaxLookups         *)
(* prefixes in all, each new one the next three-digit string.               *)

PennsylvaniaJson ==
    [ok |-> TRUE, type |-> "FeatureCollection",
     features |-> <<Feature(<<4, 2>>, TRUE, <<0, 0, 3>>)>>]

NthPrefix(k) == <<k \div 100, (k \div 10) % 10, k % 10>>

InitGeoLru ==
    /\ fs = (1 :> PennsylvaniaJson)
    /\ heap = <<>>
    /\ cache = <<>>
    /\ ret = NoRet
    /\ regionCache = <<>>
    /\ regionRuns = <<>>
    /\ threads = NoThreads
    /\ fig = NoFigure

FirstGeo == heap = <<>> /\ GeoCall(1)

SamePrefix ==
    /\ heap # <<>>
    /\ \/ RegionIndex(regionCache, 1, <<4, 2>>) > 0
       \/ RunsOf(regionRuns, 1, <<4, 2>>) < MaxGen
    /\ GeoRegion(1, <<4, 2>>)

OtherPrefix ==
    /\ regionRuns # <<>>
    /\ Cardinality(DOMAIN regionRuns) < MaxLookups
    /\ GeoRegion(1, NthPrefix(Cardinality(DOMAIN regionRuns)))

NextGeoLru == FirstGeo \/ SamePrefix \/ OtherPrefix

SpecGeoLru == InitGeoLru /\ [][NextGeoLru]_vars

-----------------------------------------------------------------------------
(* The thread specification: one Level and its Regions, materialized by two *)
(* threads whose steps through the data property interleave freely, over a  *)
(* source file that comes and goes.                                         *)

InitRace ==
    /\ \E a \in BOOLEAN : fs = (1 :> [CountiesCsv EXCEPT !.ok = a])
    /\ heap = <<>>
    /\ cache = <<>>
    /\ ret = NoRet
    /\ regionCache = <<>>
    /\ regionRuns = <<>>
    /\ threads = NoThreads
    /\ fig = NoFigure

RaceLevel == heap = <<>> /\ LevelCall(1)

RaceRegion ==
    \E f \in Prefixes :
        /\ heap # <<>>
        /\ MayConstruct(FilterKey("Region", 1, f), MaxRaceNodes)
        /\ RegionCall(1, f)

ThreadCheck == \E t \in Threads, i \in 1..Len(heap) : DataCheck(t, i)

ThreadRun ==
    \E t \in Threads :
        /\ threads[t].at = "generate"
        /\ MayGenerate(threads[t].node)
        /\ DataGenerate(t)

ThreadSet == \E t \in Threads : DataAssign(t)

RaceDisk == \E b \in BOOLEAN : SetReadable(1, b)

NextRace ==
    RaceLevel \/ RaceRegion \/ ThreadCheck \/ ThreadRun \/ ThreadSet \/ RaceDisk

SpecRace == InitRace /\ [][NextRace]_vars

-----------------------------------------------------------------------------
(* The figure specification: a source with or without the state and county  *)
(* label columns, a tree of Regions and Dates, and one Figure constructed   *)
(* from and updated with any Region or Date of the tree.                    *)

LabelSets == {{}, {"state"}, {"state", "county"}}

InitFig ==
    /\ \E l \in LabelSets : fs = (1 :> [CountiesCsv EXCEPT !.labels = l])
    /\ heap = <<>>
    /\ cache = <<>>
    /\ ret = NoRet
    /\ regionCache = <<>>
    /\ regionRuns = <<>>
    /\ threads = NoThreads
    /\ fig = NoFigure

FigLevel == heap = <<>> /\ LevelCall(1)

FigRegion ==
    \E f \in Prefixes :
        /\ heap # <<>>
        /\ ~Cached(FilterKey("Region", 1, f))
        /\ Len(heap) < MaxFigNodes
        /\ RegionCall(1, f)

FigDate ==
    \E o \in 1..Len(heap), d \in Dates :
        /\ ~Cached(FilterKey("Date", o, d))
        /\ Len(heap) < MaxFigNodes
        /\ DateCall(o, d)

MakeFigure ==
    \E dm \in 1..Len(heap) :
        heap[dm].cls \in {"Region", "Date"} /\ FigureNew(dm)

UpdateFigure ==
    \E dm \in 0..Len(heap) :
        /\ dm # 0 => heap[dm].cls \in {"Region", "Date"}
        /\ FigureUpdate(dm)

NextFig == FigLevel \/ FigRegion \/ FigDate \/ MakeFigure \/ UpdateFigure

SpecFig == InitFig /\ [][NextFig]_vars

-----------------------------------------------------------------------------
(* Vocabulary of the properties. *)

Nodes == 1..Len(heap)

ConstructOps == {"Level", "region", "Region", "date", "GeoJSONManager"}

(* Two instances were constructed from the same class and parameters. *)
SameParams(a, b) ==
    /\ a.cls = b.cls
    /\ IF a.cls \in {"Level", "GeoJSON"} THEN a.filepath = b.filepath
       ELSE a.outer = b.outer /\ a.filter = b.filter

(* p is a prefix of s, said without str.startswith. *)
IsPrefix(p, s) == \E k \in 0..Len(s) : p = [j \in 1..k |-> s[j]]

(* The row has a region code and the code starts with p. *)
CodeStartsWith(row, p) == ~row.fips.na /\ IsPrefix(p, row.fips.s)

-----------------------------------------------------------------------------
(* C1: any two constructions with the same class and parameters return the  *)
(* same instance, however many other nodes are constructed in between: the  *)
(* instance a construction returns is the only instance ever allocated with *)
(* its class and parameters.                                                *)
C1_OneInstancePerParams ==
    ret.op \in ConstructOps /\ ret.inst \in Nodes =>
        \A i \in Nodes : SameParams(heap[i], heap[ret.inst]) => i = ret.inst

(* What C2 says of one state: an instance's generation has returned once   *)
(* when it holds a dataset and never otherwise, and the last materialize    *)
(* call, if it returned, returned the cached dataset object.                *)
C2_State ==
    /\ \A i \in Nodes :
         /\ heap[i].gen - heap[i].fails = IF heap[i].hasData THEN 1 ELSE 0
         /\ heap[i].hasData /\ heap[i].fails = 0 => heap[i].gen = 1
    /\ ret.op = "materialize" /\ ret.err = ""
         => heap[ret.recv].hasData /\ ret.val = heap[ret.recv].data

(* C2: an instance's generation returns at most once; with no failed run it *)
(* has run exactly once when the instance holds a dataset.  A materialize   *)
(* call that returns, returns the cached dataset object, and a cached       *)
(* dataset is never generated again nor replaced.                           *)
C2_GenerateOnce ==
    [][/\ C2_State'
       /\ \A i \in Nodes :
            heap[i].hasData =>
                /\ heap'[i].hasData
                /\ heap'[i].data = heap[i].data
                /\ heap'[i].gen = heap[i].gen]_vars

(* Two Regions of one Level hold datasets, so the Level was materialized    *)
(* once by each of them, and it generated once.                             *)
C2_Witness ==
    \E l, a, b \in Nodes :
        /\ a # b
        /\ heap[l].cls = "Level" /\ heap[l].gen = 1
        /\ heap[a].outer = l /\ heap[a].hasData
        /\ heap[b].outer = l /\ heap[b].hasData
        /\ ret.op = "materialize" /\ ret.recv = l /\ ret.val = heap[l].data

(* C3: a construction or derivation runs no generation, on no instance; an  *)
(* instance's generation runs only in a materialize call on it or on one of *)
(* its descendants, made by the caller, by a column accessor or by the body *)
(* of GeoJSONManager.region (self()).                                       *)
C3_LazyConstruction ==
    [][/\ ret'.op \in ConstructOps =>
            /\ \A i \in Nodes :
                 /\ heap'[i].gen = heap[i].gen
                 /\ heap'[i].hasData = heap[i].hasData
            /\ \A i \in 1..Len(heap') :
                 i > Len(heap) => heap'[i].gen = 0 /\ ~heap'[i].hasData
       /\ \A i \in 1..Len(heap') :
            (IF i <= Len(heap) THEN heap'[i].gen > heap[i].gen
                               ELSE heap'[i].gen > 0)
            => /\ ret'.op \in {"materialize", "access", "geo_region"}
               /\ i \in Chain(heap', ret'.recv)]_vars

(* A Date was just derived and nothing on its chain has generated. *)
C3_Witness ==
    /\ ret.op = "date"
    /\ ret.inst \in Nodes
    /\ heap[ret.inst].cls = "Date"
    /\ \A j \in Chain(heap, ret.inst) : heap[j].gen = 0 /\ ~heap[j].hasData

(* C4: a materialize call whose generation raises gives the error to the    *)
(* caller and leaves the instance without a dataset; a materialize call on  *)
(* an instance without a dataset runs the generation (again), and when that *)
(* returns, the dataset is cached and returned.                             *)
C4_FailureNotCached ==
    [][ret'.op = "materialize" =>
         LET i == ret'.recv IN
         /\ ret'.err # "" =>
              /\ ~heap'[i].hasData
              /\ heap'[i].data = NoData
              /\ heap'[i].fails = heap[i].fails + 1
         /\ heap'[i].fails > heap[i].fails => ret'.err # ""
         /\ ~heap[i].hasData => heap'[i].gen = heap[i].gen + 1
         /\ ~heap[i].hasData /\ ret'.err = "" =>
              /\ heap'[i].hasData
              /\ heap'[i].data = ret'.val]_vars

(* A retry succeeded: the call returned the dataset of an instance whose    *)
(* generation had raised before.                                            *)
C4_Witness ==
    /\ ret.op = "materialize"
    /\ ret.err = ""
    /\ heap[ret.recv].fails > 0
    /\ heap[ret.recv].hasData
    /\ ret.val = heap[ret.recv].data
    /\ ret.val.rows # <<>>

(* C5: once a materialize call on an instance has failed, a construction    *)
(* with the same parameters still returns that instance.                    *)
C5_IdentitySurvivesFailure ==
    ret.op \in ConstructOps /\ ret.inst \in Nodes =>
        \A i \in Nodes :
            heap[i].fails > 0 /\ SameParams(heap[i], heap[ret.inst])
                => ret.inst = i

-----------------------------------------------------------------------------
(* The rows of a table that satisfy a test, in the table's order. *)
RECURSIVE RowsWhere(_, _, _, _)
RowsWhere(rows, useCode, p, d) ==
    IF rows = <<>> THEN <<>>
    ELSE LET r == Head(rows)
             keep == /\ (useCode => CodeStartsWith(r, p))
                     /\ (d # 0 => r.date = d)
         IN (IF keep THEN <<r>> ELSE <<>>)
            \o RowsWhere(Tail(rows), useCode, p, d)

IsRegionOfLevel(i) ==
    /\ heap[i].cls = "Region"
    /\ heap[heap[i].outer].cls = "Level"

(* C6: when the outer dataset has the fips column, a Region's dataset is    *)
(* exactly the outer rows that have a region code starting with the prefix, *)
(* in the outer's order, each row whole, under the outer's columns.         *)
C6_PrefixFilter ==
    \A i \in Nodes :
        /\ heap[i].cls = "Region"
        /\ heap[i].hasData
        /\ "fips" \in heap[heap[i].outer].data.cols
        => /\ heap[heap[i].outer].hasData
           /\ heap[i].data.cols = heap[heap[i].outer].data.cols
           /\ heap[i].data.rows =
                RowsWhere(heap[heap[i].outer].data.rows, TRUE, heap[i].filter, 0)

(* A Region that kept some rows of its outer dataset and dropped others. *)
C6_Witness ==
    \E i \in Nodes :
        /\ heap[i].cls = "Region" /\ heap[i].hasData
        /\ heap[i].filter = <<4>>
        /\ "fips" \in heap[heap[i].outer].data.cols
        /\ Len(heap[i].data.rows) = 1
        /\ Len(heap[heap[i].outer].data.rows) = 2
        /\ heap[i].data.rows[1].idx = 1

(* C7: region("") of a Level holds every row of the Level, the rows with an *)
(* empty or missing region code included.                                   *)
C7_IdentityFilter ==
    \A i \in Nodes :
        IsRegionOfLevel(i) /\ heap[i].hasData /\ heap[i].filter = <<>>
        => heap[i].data.rows = heap[heap[i].outer].data.rows

(* C8: when the Region's dataset has the date column, a Date's dataset is   *)
(* exactly the Region's rows whose date equals the value, in their order.   *)
C8_ExactDateFilter ==
    \A i \in Nodes :
        /\ heap[i].cls = "Date"
        /\ heap[i].hasData
        /\ "date" \in heap[heap[i].outer].data.cols
        => /\ heap[heap[i].outer].hasData
           /\ heap[i].data.cols = heap[heap[i].outer].data.cols
           /\ heap[i].data.rows =
                RowsWhere(heap[heap[i].outer].data.rows, FALSE, <<>>, heap[i].filter)

(* A Date that kept the second of its Region's two rows. *)
C8_Witness ==
    \E i \in Nodes :
        /\ heap[i].cls = "Date" /\ heap[i].hasData
        /\ Len(heap[heap[i].outer].data.rows) = 2
        /\ Len(heap[i].data.rows) = 1
        /\ heap[i].data.rows[1].idx = 1
        /\ heap[i].data.rows[1].date = heap[i].filter

(* The Date i of a Region of a Level l. *)
IsDateOfLevel(i, l) ==
    /\ heap[i].cls = "Date"
    /\ IsRegionOfLevel(heap[i].outer)
    /\ heap[heap[i].outer].outer = l

(* C9, as claimed: level.region(p).date(d) holds exactly the level's rows   *)
(* whose region code starts with p and whose date is d.  Stated for p # ""  *)
(* only, where "starts with p" has one reading.                             *)
C9_AsClaimed ==
    \A i, l \in Nodes :
        IsDateOfLevel(i, l) /\ heap[i].hasData /\ heap[heap[i].outer].filter # <<>>
        => heap[i].data.rows =
             RowsWhere(heap[l].data.rows, TRUE, heap[heap[i].outer].filter,
                       heap[i].filter)

(* C9, amended: level.region(p).date(d) holds exactly the level's rows      *)
(* whose date is d and, when the level's dataset has the fips column, whose *)
(* region code starts with p; without that column p is ignored.             *)
C9_RegionThenDate ==
    \A i, l \in Nodes :
        IsDateOfLevel(i, l) /\ heap[i].hasData
        => /\ heap[l].hasData
           /\ heap[i].data.rows =
                RowsWhere(heap[l].data.rows, "fips" \in heap[l].data.cols,
                          heap[heap[i].outer].filter, heap[i].filter)

(* Both cases: a Date under a non-empty prefix of a Level with the fips     *)
(* column that kept one row of two, or of a Level without it that kept one. *)
C9_Witness ==
    \E i, l \in Nodes :
        /\ IsDateOfLevel(i, l) /\ heap[i].hasData
        /\ heap[heap[i].outer].filter = <<4>>
        /\ Len(heap[l].data.rows) = 2
        /\ Len(heap[i].data.rows) = 1

(* C10, as claimed: on a Region of a Level, region(p2) can be derived. *)
C10_AsClaimed ==
    ret.op = "region" /\ ret.recv \in Nodes /\ IsRegionOfLevel(ret.recv)
    => ret.err = "" /\ ret.inst \in Nodes

(* The nested Region n = Level.Region(level.region(p1), p2) and the direct  *)
(* Region m = level.region(p2), with p2 starting with p1.                   *)
IsNestedPair(n, m) ==
    /\ heap[n].cls = "Region"
    /\ IsRegionOfLevel(heap[n].outer)
    /\ IsRegionOfLevel(m)
    /\ heap[m].outer = heap[heap[n].outer].outer
    /\ heap[m].filter = heap[n].filter
    /\ StartsWith(heap[n].filter, heap[heap[n].outer].filter)

(* C10, amended: Region has no region() method, so region.region(p2) raises *)
(* AttributeError and constructs nothing; the nested node is constructed by *)
(* Level.Region(level.region(p1), p2) and, whenever p2 starts with p1, it   *)
(* holds the same rows as level.region(p2).                                 *)
C10_NestedRegion ==
    /\ ret.op = "region" /\ ret.recv \in Nodes /\ heap[ret.recv].cls = "Region"
         => ret.err = "AttributeError" /\ ret.inst = 0
    /\ \A n, m \in Nodes :
         IsNestedPair(n, m) /\ heap[n].hasData /\ heap[m].hasData
         => /\ heap[n].data.rows = heap[m].data.rows
            /\ heap[n].data.cols = heap[m].data.cols

(* A nested Region under a strictly shorter prefix and the direct Region    *)
(* hold the same, non-empty, proper part of the Level's rows.               *)
C10_Witness ==
    \E n, m \in Nodes :
        /\ IsNestedPair(n, m) /\ heap[n].hasData /\ heap[m].hasData
        /\ heap[n].filter = <<4, 2>>
        /\ heap[heap[n].outer].filter = <<4>>
        /\ Len(heap[n].data.rows) = 1
        /\ Len(heap[heap[m].outer].data.rows) = 2

-----------------------------------------------------------------------------
IsFilter(i) == heap[i].cls \in {"Region", "Date"}

(* The outer table has the node's filter column and none of its rows passes *)
(* the node's filter.                                                       *)
NoRowPasses(i) ==
    LET o == heap[heap[i].outer].data IN
    /\ FilterCol(heap[i].cls) \in o.cols
    /\ IF heap[i].cls = "Region"
       THEN \A k \in 1..Len(o.rows) : ~CodeStartsWith(o.rows[k], heap[i].filter)
       ELSE \A k \in 1..Len(o.rows) : o.rows[k].date # heap[i].filter

C12_AbsentColumnPassThrough ==
    \A i \in Nodes :
        /\ IsFilter(i)
        /\ heap[i].hasData
        /\ heap[heap[i].outer].hasData
        /\ FilterCol(heap[i].cls) \notin heap[heap[i].outer].data.cols
        => heap[i].data = heap[heap[i].outer].data

(* A Region of a non-empty prefix holds the non-empty table of a Level that *)
(* has no fips column.                                                      *)
C12_Witness ==
    \E i \in Nodes :
        /\ heap[i].cls = "Region" /\ heap[i].filter = <<4, 2>>
        /\ heap[i].hasData
        /\ "fips" \notin heap[heap[i].outer].data.cols
        /\ Len(heap[i].data.rows) = 2

(* C13: region(prefix) and date(value) leave their receiver as it was: its  *)
(* parameters, whether it holds a dataset, and the dataset.                 *)
C13_DerivationKeepsReceiver ==
    [][ret'.op \in {"region", "Region", "date"} /\ ret'.recv \in Nodes
         => heap'[ret'.recv] = heap[ret'.recv]]_vars

(* A date() that hit the identity cache, on a Region that holds a dataset:  *)
(* the Date it returned had generated already.                              *)
C13_Witness ==
    /\ ret.op = "date"
    /\ ret.inst \in Nodes
    /\ heap[ret.inst].gen > 0
    /\ heap[ret.recv].hasData

(* C14: an instance keeps the class and parameters it was created with, and *)
(* a dataset it holds is never cleared or replaced, in every step, a        *)
(* construction that hits the identity cache and runs __init__ again        *)
(* included.                                                                *)
C14_NodesAreImmutable ==
    [][\A i \in Nodes :
         /\ heap'[i].cls = heap[i].cls
         /\ heap'[i].filepath = heap[i].filepath
         /\ heap'[i].outer = heap[i].outer
         /\ heap'[i].filter = heap[i].filter
         /\ heap[i].hasData => heap'[i].hasData /\ heap'[i].data = heap[i].data]_vars

(* Level(filepath) hit the identity cache and returned the instance that    *)
(* holds a dataset.                                                         *)
C14_Witness ==
    /\ ret.op = "Level"
    /\ ret.inst \in Nodes
    /\ heap[ret.inst].hasData
    /\ heap[ret.inst].filepath = 1

(* C15: however the descendants of a Level are materialized, no instance's  *)
(* generation returns twice (the source is read once, a Region filters      *)
(* once), an instance that holds a dataset is not generated again, and an   *)
(* instance that holds a dataset has every ancestor holding one.            *)
C15_SharedAncestorsOnce ==
    [][/\ \A i \in 1..Len(heap') :
            /\ heap'[i].gen - heap'[i].fails <= 1
            /\ heap'[i].hasData =>
                 \A j \in Chain(heap', i) :
                     heap'[j].hasData /\ heap'[j].gen - heap'[j].fails = 1
       /\ \A i \in Nodes : heap[i].hasData => heap'[i].gen = heap[i].gen]_vars

(* A Region and a Date of one Level were materialized, the Level read once. *)
C15_Witness ==
    \E l, a, b \in Nodes :
        /\ a # b
        /\ heap[l].cls = "Level" /\ heap[l].gen = 1
        /\ l \in Chain(heap, a) /\ heap[a].hasData /\ heap[a].cls = "Date"
        /\ heap[b].outer = l /\ heap[b].hasData /\ heap[b].gen = 1
        /\ ret.op = "materialize" /\ ret.recv = b

(* C16: when a materialize call fails, it fails with the error of the       *)
(* Level's generation; every instance from the receiver up to the Level ran *)
(* its generation once in the call, and none of them holds a dataset.       *)
C16_ErrorsPropagate ==
    [][ret'.op = "materialize" /\ ret'.err # ""
         => /\ ret'.err = "FileNotFoundError"
            /\ \A j \in Chain(heap, ret'.recv) :
                 /\ ~heap[j].hasData
                 /\ ~heap'[j].hasData
                 /\ heap'[j].gen = heap[j].gen + 1
                 /\ heap'[j].fails = heap[j].fails + 1]_vars

(* The materialization of a Date failed with the error of its Level. *)
C16_Witness ==
    /\ ret.op = "materialize"
    /\ ret.err = "FileNotFoundError"
    /\ heap[ret.recv].cls = "Date"
    /\ \A j \in Chain(heap, ret.recv) : heap[j].fails = 1 /\ heap[j].gen = 1

(* The dataset of the node lacks the column: no table has a deaths or a     *)
(* state column, and a table read from a file with no fips column has none. *)
LacksColumn(i, name) == heap[i].hasData /\ name \notin heap[i].data.cols

(* C17 as claimed: each of the five accessors, on every node, raises when   *)
(* the node's dataset lacks the column, and unless the generation itself    *)
(* failed the node is materialized when the accessor returns.               *)
C17_AsClaimed ==
    ret.op = "access" /\ ret.name \in {"deaths", "state"}
    => /\ ret.err # ""
       /\ ret.err # "FileNotFoundError" => heap[ret.recv].hasData

(* C17: an accessor that is a property of the node's class (date, fips,     *)
(* cases, deaths on every node but date on a Region, where it is the        *)
(* derivation method; state on a Region or a Date) materializes the node,   *)
(* returns the column only if the dataset has it and raises KeyError if it  *)
(* lacks it, leaving a dataset the node held in place; state on a Level     *)
(* raises AttributeError and leaves the Level as it was.                    *)
C17_AccessorsFailLoudly ==
    [][ret'.op = "access" =>
        LET i == ret'.recv
            name == ret'.name
            kind == AttributeKind(heap[i].cls, name)
        IN
        /\ heap[i].hasData => heap'[i] = heap[i]
        /\ kind = "property" =>
             /\ ret'.err \in {"", "KeyError", "FileNotFoundError"}
             /\ ret'.err = "FileNotFoundError" <=> ~heap'[i].hasData
             /\ ret'.err = "KeyError" <=>
                    heap'[i].hasData /\ name \notin heap'[i].data.cols
             /\ ret'.err = "" =>
                    /\ ret'.val.cols = {name}
                    /\ ret'.val.rows = heap'[i].data.rows
             /\ ret'.err # "" => ret'.val = NoData
        /\ kind = "missing" =>
             /\ heap[i].cls = "Level" /\ name = "state"
             /\ ret'.err = "AttributeError" /\ ret'.val = NoData
             /\ heap' = heap
        /\ kind = "method" =>
             /\ heap[i].cls = "Region" /\ name = "date"
             /\ ret'.err = "" /\ ret'.val = NoData /\ ret'.inst = i
             /\ heap' = heap]_vars

(* deaths was read from a Date that held no dataset: the access raised      *)
(* KeyError and the Date holds its dataset.                                 *)
C17_Witness ==
    /\ ret.op = "access" /\ ret.name = "deaths"
    /\ heap[ret.recv].cls = "Date"
    /\ heap[ret.recv].gen = 1
    /\ ret.err = "KeyError"
    /\ LacksColumn(ret.recv, "deaths")
    /\ Len(heap[ret.recv].data.rows) > 0

-----------------------------------------------------------------------------
IsGeo(i) == heap[i].cls = "GeoJSON"

(* The features, in order, whose id starts with the prefix. *)
RECURSIVE FeaturesWhere(_, _)
FeaturesWhere(features, p) ==
    IF features = <<>> THEN <<>>
    ELSE (IF IsPrefix(p, Head(features).id) THEN <<Head(features)>> ELSE <<>>)
         \o FeaturesWhere(Tail(features), p)

(* C18: in the document a GeoJSONManager holds, every feature's id is its   *)
(* STATE code followed by its COUNTY code if the feature has one, and its   *)
(* STATE code alone otherwise, wherever the feature stands.                 *)
C18_IdSynthesis ==
    \A i \in Nodes :
        IsGeo(i) /\ heap[i].hasData
        => \A k \in 1..Len(heap[i].data.features) :
               LET f == heap[i].data.features[k] IN
               f.id = IF f.properties.hasCounty
                      THEN f.properties.STATE \o f.properties.COUNTY
                      ELSE f.properties.STATE

(* C19: a region(prefix) that returns gives a document whose features are   *)
(* the features of the manager's document whose id starts with the prefix,  *)
(* in document order, and whose other field is the document's; the same     *)
(* holds of every result the lookup has stored.                             *)
C19_PrefixSubset ==
    /\ ret.op = "geo_region" /\ ret.err = ""
         => /\ heap[ret.recv].hasData
            /\ ret.val.features =
                   FeaturesWhere(heap[ret.recv].data.features, ret.prefix)
            /\ ret.val.type = heap[ret.recv].data.type
    /\ \A n \in 1..Len(regionCache) :
         LET e == regionCache[n] IN
         /\ heap[e.self].hasData
         /\ e.val.features = FeaturesWhere(heap[e.self].data.features, e.prefix)
         /\ e.val.type = heap[e.self].data.type

(* region("42") of a two-feature document returned one of the two, the      *)
(* second, in a document of the other type.                                 *)
C19_Witness ==
    /\ ret.op = "geo_region" /\ ret.err = ""
    /\ ret.prefix = <<4, 2>>
    /\ Len(heap[ret.recv].data.features) = 2
    /\ ret.val.features = <<heap[ret.recv].data.features[2]>>
    /\ ret.val.type = "Topology"

(* C20: for one manager and prefix the body of region returns at most once, *)
(* and every call returns the result of that one run, whatever other        *)
(* prefixes were looked up in between.                                      *)
C20_RegionMemoized ==
    /\ \A key \in DOMAIN regionRuns : regionRuns[key] <= 1
    /\ ret.op = "geo_region" /\ ret.err = ""
         => ret.val.obj = <<ret.recv, ret.prefix, 1>>

-----------------------------------------------------------------------------
(* C21: nothing but the hasattr test keeps a thread from generating: a      *)
(* thread passes the test on any node that holds no dataset at that moment, *)
(* whatever the other thread is doing, and a thread that has passed it runs *)
(* the node's generation routine and then sets _data to what it returned,   *)
(* even when the node has been materialized in between.                     *)
C21_UnsynchronizedFirstAccess ==
    [][\A t \in Threads :
         LET n == threads[t].node IN
         /\ threads[t].at = "idle" /\ threads'[t].at = "generate"
              => ~heap[threads'[t].node].hasData
         /\ threads[t].at = "generate" /\ threads'[t].at # "generate"
              => heap'[n].gen = heap[n].gen + 1
         /\ threads[t].at = "assign" /\ threads'[t].at = "idle"
              => heap'[n].hasData /\ heap'[n].data = threads[t].val]_vars

(* The generation routine of one Level has run twice and returned twice:    *)
(* both threads passed the test before either set _data, and the second     *)
(* assignment replaced the dataset of the first.                            *)
C21_Witness ==
    \E i \in Nodes :
        /\ heap[i].cls = "Level"
        /\ heap[i].gen = 2 /\ heap[i].fails = 0
        /\ heap[i].hasData
        /\ ret.op = "materialize" /\ ret.recv = i /\ ret.val = heap[i].data
        /\ \A t \in Threads : threads[t].at = "idle"

-----------------------------------------------------------------------------
(* C22: the generation of a GeoJSONManager has returned once when it holds  *)
(* a document, and no step, a repeated materialize call and a region lookup *)
(* of any prefix included, generates it again or changes the document it    *)
(* holds, its features or an id.                                            *)
C22_DocumentWrittenOnce ==
    [][/\ \A i \in Nodes :
            IsGeo(i) /\ heap[i].hasData
            => /\ heap'[i].hasData
               /\ heap'[i].data = heap[i].data
               /\ heap'[i].gen = heap[i].gen
       /\ \A i \in 1..Len(heap') :
            heap'[i].cls = "GeoJSON" /\ heap'[i].hasData
            => heap'[i].gen - heap'[i].fails = 1]_vars

(* A second lookup, of a prefix that keeps one feature of two, has returned *)
(* and the manager still holds its two-feature document, generated once.    *)
C22_Witness ==
    /\ ret.op = "geo_region" /\ ret.err = ""
    /\ Len(regionCache) >= 2
    /\ Len(ret.val.features) = 1
    /\ heap[ret.recv].hasData
    /\ heap[ret.recv].gen = 1
    /\ Len(heap[ret.recv].data.features) = 2

-----------------------------------------------------------------------------
(* C23: the instance a construction or derivation call returns is of the    *)
(* class called and has the parameters of the call (so, parameters being    *)
(* immutable, calls that differ in class or parameters return different     *)
(* instances), and the dataset a Region or Date holds is its own outer's    *)
(* rows that pass its own filter value.                                     *)
C23_NoFalseSharing ==
    /\ ret.inst \in Nodes =>
         LET n == heap[ret.inst] IN
         /\ ret.op = "Level" => n.cls = "Level" /\ n.filepath = ret.path
         /\ ret.op \in {"region", "Region"} =>
                n.cls = "Region" /\ n.outer = ret.recv /\ n.filter = ret.prefix
         /\ ret.op = "date" =>
                n.cls = "Date" /\ n.outer = ret.recv /\ n.filter = ret.date
    /\ \A i \in Nodes :
         IsFilter(i) /\ heap[i].hasData
         => /\ heap[heap[i].outer].hasData
            /\ heap[i].data.rows =
                 IF heap[i].cls = "Region"
                 THEN RowsWhere(heap[heap[i].outer].data.rows,
                                TRUE, heap[i].filter, 0)
                 ELSE RowsWhere(heap[heap[i].outer].data.rows,
                                FALSE, <<>>, heap[i].filter)

(* region("42") returned, from the cache, a Region that holds "42" rows,    *)
(* while a Region of the same Level for "4" holds another dataset.          *)
C23_Witness ==
    /\ ret.op = "region" /\ ret.prefix = <<4, 2>> /\ ret.inst \in Nodes
    /\ heap[ret.inst].hasData
    /\ \E j \in Nodes :
         /\ j # ret.inst
         /\ heap[j].cls = "Region" /\ heap[j].outer = ret.recv
         /\ heap[j].filter = <<4>>
         /\ heap[j].hasData
         /\ heap[j].data.rows # heap[ret.inst].data.rows

-----------------------------------------------------------------------------
(* The source file at the root of a node's chain of outers. *)
RECURSIVE SourceOf(_)
SourceOf(i) ==
    IF heap[i].cls = "Level" THEN fs[heap[i].filepath]
    ELSE SourceOf(heap[i].outer)

(* The rows a node stands for, from the source and the node's parameters    *)
(* alone: the lines of the file for a Level, and for a Region or a Date the *)
(* rows its outer stands for that pass its filter (every one of them for a  *)
(* Region over a source with no fips column).                               *)
RECURSIVE RowsFor(_)
RowsFor(i) ==
    IF heap[i].cls = "Level" THEN ReadCsv(SourceOf(i), <<0, 0>>).rows
    ELSE IF heap[i].cls = "Date"
    THEN RowsWhere(RowsFor(heap[i].outer), FALSE, <<>>, heap[i].filter)
    ELSE IF SourceOf(i).hasFips
    THEN RowsWhere(RowsFor(heap[i].outer), TRUE, heap[i].filter, 0)
    ELSE RowsFor(heap[i].outer)

(* C24: in every reachable state, whatever the order of the constructions,  *)
(* derivations and materialize calls that led to it, the dataset a node     *)
(* holds has the columns of its source and the rows that the source and the *)
(* node's own chain of parameters determine.                                *)
C24_OrderIndependence ==
    \A i \in Nodes :
        heap[i].cls \in {"Level", "Region", "Date"} /\ heap[i].hasData
        => /\ heap[i].data.rows = RowsFor(i)
           /\ heap[i].data.cols = ReadCsv(SourceOf(i), <<0, 0>>).cols
           /\ ret.op = "materialize" /\ ret.recv = i /\ ret.err = ""
                => ret.val.rows = RowsFor(i)

(* A Region was materialized after a Date of a sibling Region, which had    *)
(* materialized their Level first: both hold rows, and not the same rows.   *)
C24_Witness ==
    \E d \in Nodes :
        /\ heap[d].cls = "Date" /\ heap[d].hasData
        /\ heap[d].data.rows # <<>>
        /\ ret.op = "materialize" /\ ret.err = ""
        /\ heap[ret.recv].cls = "Region"
        /\ ret.recv # heap[d].outer
        /\ heap[ret.recv].outer = heap[heap[d].outer].outer
        /\ ret.val.rows # <<>>
        /\ ret.val.rows # heap[d].data.rows

-----------------------------------------------------------------------------
(* C25: the Figure's fips is the filter of its region_data, and when it has *)
(* a date_data, that Date's outer is its region_data and its date is that   *)
(* Date's filter.                                                           *)
C25_SelectionConsistent ==
    /\ "fips" \in fig.attrs
         => /\ "region_data" \in fig.attrs
            /\ fig.fips = heap[fig.region_data].filter
    /\ "date_data" \in fig.attrs
         => /\ heap[fig.date_data].outer = fig.region_data
            /\ fig.date = heap[fig.date_data].filter

=============================================================================
